---------------------------- MODULE Spec2Model ----------------------------
(***************************************************************************)
(* Model of src/src/components/DentalPregnancyLanding.tsx: the tooth       *)
(* catalog, the search filter, the selection state, the per-tooth hover    *)
(* flag and the per-frame scale interpolation.                             *)
(*                                                                         *)
(* Strings are sequences of UTF-16 code units; a code unit is a one        *)
(* character TLA+ string, or a named token for a code unit that has no     *)
(* ASCII spelling.  A ToothInfo object is denoted by its (1-based) position *)
(* in toothInfos, the way the JavaScript arrays hold references to it.     *)
(***************************************************************************)
EXTENDS Integers, Sequences, FiniteSets, TLC

(***************************************************************************)
(* Bounds of the model.                                                    *)
(***************************************************************************)
MaxEvents == 3
MaxQueryLen == 2
MaxHovered == 1

(***************************************************************************)
(* Strings.                                                                *)
(***************************************************************************)
\* the code units of a string literal, as a sequence
Chars(s) == <<>> \o [i \in 1..Len(s) |-> SubSeq(s, i, i)]

EmDash == "U+2014"
Nbsp == "U+00A0"

UpperCase == Chars("ABCDEFGHIJKLMNOPQRSTUVWXYZ")
LowerCase == Chars("abcdefghijklmnopqrstuvwxyz")

WhiteSpace == {" ", "\t", "\n", "\r", Nbsp}

lowerOf(c) ==
    IF \E k \in 1..Len(UpperCase) : UpperCase[k] = c
    THEN LowerCase[CHOOSE k \in 1..Len(UpperCase) : UpperCase[k] = c]
    ELSE c

toLowerCase(s) == <<>> \o [k \in 1..Len(s) |-> lowerOf(s[k])]

trimStart(s) ==
    IF \A k \in 1..Len(s) : s[k] \in WhiteSpace THEN <<>>
    ELSE SubSeq(s, CHOOSE k \in 1..Len(s) :
                       /\ s[k] \notin WhiteSpace
                       /\ \A j \in 1..(k - 1) : s[j] \in WhiteSpace,
                Len(s))

trimEnd(s) ==
    IF \A k \in 1..Len(s) : s[k] \in WhiteSpace THEN <<>>
    ELSE SubSeq(s, 1, CHOOSE k \in 1..Len(s) :
                          /\ s[k] \notin WhiteSpace
                          /\ \A j \in (k + 1)..Len(s) : s[j] \in WhiteSpace)

trim(s) == trimEnd(trimStart(s))

includes(h, q) ==
    \E k \in 0..(Len(h) - Len(q)) : SubSeq(h, k + 1, k + Len(q)) = q

slice(a, from, to) ==
    SubSeq(a, from + 1, IF to < Len(a) THEN to ELSE Len(a))

(***************************************************************************)
(* DATA: the tooth catalog.                                                *)
(***************************************************************************)
names == <<
    Chars("Molar kanan atas (3rd)"),
    Chars("Molar kanan atas (2nd)"),
    Chars("Molar kanan atas (1st)"),
    Chars("Premolar kanan atas (2nd)"),
    Chars("Premolar kanan atas (1st)"),
    Chars("Caninus kanan atas"),
    Chars("Insisivus lateral kanan atas"),
    Chars("Insisivus sentral kanan atas"),
    Chars("Insisivus sentral kiri atas"),
    Chars("Insisivus lateral kiri atas"),
    Chars("Caninus kiri atas"),
    Chars("Premolar kiri atas (1st)"),
    Chars("Premolar kiri atas (2nd)"),
    Chars("Molar kiri atas (1st)"),
    Chars("Molar kiri atas (2nd)"),
    Chars("Molar kiri atas (3rd)"),
    Chars("Molar kanan bawah (3rd)"),
    Chars("Molar kanan bawah (2nd)"),
    Chars("Molar kanan bawah (1st)"),
    Chars("Premolar kanan bawah (2nd)"),
    Chars("Premolar kanan bawah (1st)"),
    Chars("Caninus kanan bawah"),
    Chars("Insisivus lateral kanan bawah"),
    Chars("Insisivus sentral kanan bawah"),
    Chars("Insisivus sentral kiri bawah"),
    Chars("Insisivus lateral kiri bawah"),
    Chars("Caninus kiri bawah"),
    Chars("Premolar kiri bawah (1st)"),
    Chars("Premolar kiri bawah (2nd)"),
    Chars("Molar kiri bawah (1st)"),
    Chars("Molar kiri bawah (2nd)"),
    Chars("Molar kiri bawah (3rd)") >>

tips == <<
    Chars("Perubahan hormon saat hamil dapat meningkatkan risiko gingivitis. Sikat gigi lembut 2x sehari dan gunakan benang gigi."),
    Chars("Mual muntah dapat mengikis email. Kumur air + 1 sdt baking soda setelah muntah, tunggu 30 menit baru sikat."),
    Chars("Ngidam manis? Batasi frekuensi camilan bergula dan minum air putih setelahnya."),
    Chars("Kontrol karang gigi (scaling) umumnya aman pada trimester 2. Konsultasikan jadwal dengan dokter gigi."),
    Chars("Gunakan pasta gigi berfluor. Jika gusi mudah berdarah, jangan hentikan sikat gigi ")
        \o <<EmDash>> \o Chars(" fokuskan teknik lembut."),
    Chars("X-ray gigi hanya bila perlu, dengan pelindung timah dan sesuai saran dokter."),
    Chars("Obat bius lokal seperti lidokain umumnya dapat dipertimbangkan; selalu infokan status kehamilan."),
    Chars("Gusi bengkak? Kompres dingin di pipi dapat membantu sementara, namun periksa jika nyeri berlanjut.") >>

CatalogLength == 32

\* String(id) for the fallback name `Gigi ${id}`
decimal(n) ==
    LET width == CHOOSE w \in 1..9 : n < 10 ^ w /\ (w = 1 \/ n >= 10 ^ (w - 1)) IN
    <<>> \o [j \in 1..width |->
                Chars("0123456789")[((n \div (10 ^ (width - j))) % 10) + 1]]

\* variant: the tip is looked up by id instead of by index
toothInfoAt_tipById(i) ==
    LET id == i + 1 IN
    [ id    |-> id,
      name  |-> IF i + 1 <= Len(names) THEN names[i + 1]
                ELSE Chars("Gigi ") \o decimal(id),
      blurb |-> tips[(id % Len(tips)) + 1] ]

\* the element Array.from builds for index i (0-based)
toothInfoAt(i) ==
    LET id == i + 1 IN
    [ id    |-> id,
      name  |-> IF i + 1 <= Len(names) THEN names[i + 1]
                ELSE Chars("Gigi ") \o decimal(id),
      blurb |-> tips[(i % Len(tips)) + 1] ]

\* Array.from({ length: 32 }, (_, i) => ...)
toothInfos == <<>> \o [k \in 1..CatalogLength |-> toothInfoAt(k - 1)]

(***************************************************************************)
(* Search filter (the useMemo callback).  The result is the sequence of    *)
(* catalog positions of the ToothInfo objects it returns.                  *)
(***************************************************************************)
Positions == <<>> \o [k \in 1..Len(toothInfos) |-> k]

haystack(t) == toLowerCase(t.name \o Chars(" ") \o t.blurb)

SliceEnd == 8

\* variant: the matches are not capped
filteredOf_noCap(text) ==
    LET q == toLowerCase(trim(text)) IN
    IF q = <<>> THEN slice(Positions, 0, SliceEnd)
    ELSE SelectSeq(Positions, LAMBDA p : includes(haystack(toothInfos[p]), q))

\* variant: the records are matched case-sensitively
filteredOf_caseSensitive(text) ==
    LET q == toLowerCase(trim(text)) IN
    IF q = <<>> THEN slice(Positions, 0, SliceEnd)
    ELSE slice(SelectSeq(Positions,
                         LAMBDA p : includes(toothInfos[p].name \o Chars(" ")
                                               \o toothInfos[p].blurb, q)),
               0, SliceEnd)

\* variant: the query is not trimmed
filteredOf_noTrim(text) ==
    LET q == toLowerCase(text) IN
    IF q = <<>> THEN slice(Positions, 0, SliceEnd)
    ELSE slice(SelectSeq(Positions,
                         LAMBDA p : includes(haystack(toothInfos[p]), q)),
               0, SliceEnd)

\* variant: an empty query shows the whole catalog
filteredOf_emptyAll(text) ==
    LET q == toLowerCase(trim(text)) IN
    IF q = <<>> THEN Positions
    ELSE slice(SelectSeq(Positions,
                         LAMBDA p : includes(haystack(toothInfos[p]), q)),
               0, SliceEnd)

filteredOf(text) ==
    LET q == toLowerCase(trim(text)) IN
    IF q = <<>> THEN slice(Positions, 0, SliceEnd)
    ELSE slice(SelectSeq(Positions,
                         LAMBDA p : includes(haystack(toothInfos[p]), q)),
               0, SliceEnd)

(***************************************************************************)
(* The values the query box is given.                                      *)
(***************************************************************************)
QueryAlphabet == {" ", "s", "P", "a"}

Words(n) == UNION {{<<>> \o w : w \in [1..k -> QueryAlphabet]} : k \in 0..n}

TypedQueries ==
    { Chars(""), Chars("x-ray"), Chars(" Molar "), Chars("zzz") }

ScenarioQueries ==
    TypedQueries \cup
    { Chars("X-RAY"), Chars("  x-Ray\t"), Chars("gingivitis"),
      Chars("Gingivitis "), Chars("molar"), Chars("s p"), Chars(")p"),
      Chars("(3rd) perubahan"), Chars("gigi"), Chars("\t"),
      <<Nbsp, " ">>, <<EmDash>>, Chars("kiri bawah (3rd) gusi") }

AllQueries == ScenarioQueries \cup Words(MaxQueryLen)

\* useMemo(..., [query]): the filter result of each query value
filteredMemo == [v \in AllQueries |-> filteredOf(v)]

(***************************************************************************)
(* Layout: two rows of 16 placeholders (TeethScene, TeethRow).             *)
(***************************************************************************)
RowLength == 16

Mirrors == {1, -1}

Placeholders == {<<mirror, i>> : mirror \in Mirrors, i \in 0..(RowLength - 1)}

\* variant: the lower row is numbered one too far
rowId_shifted(mirror, i) == IF mirror = 1 THEN i + 1 ELSE i + 18

rowId(mirror, i) == IF mirror = 1 THEN i + 1 ELSE i + 17

idOf(p) == rowId(p[1], p[2])

(***************************************************************************)
(* Selection state.  null is <<>>, a number n is <<n>>.                    *)
(***************************************************************************)
null == <<>>

truthy(a) == a # null /\ a[1] # 0

isActive(a, id) == a = <<id>>

\* variant: selecting the selected tooth again deselects it
setActiveId_toggle(prev, next) == IF prev = next THEN null ELSE next

\* useState setter: the state is replaced by the value given
setActiveId(prev, next) == next

\* variant: the id is used as the array index
activeToothOf_byIndex(a) ==
    IF truthy(a)
    THEN IF a[1] + 1 \in 1..Len(toothInfos) THEN <<a[1] + 1>> ELSE null
    ELSE null

\* activeId ? toothInfos.find((t) => t.id === activeId) ?? null : null
\* (find gives the first record the test accepts, or undefined)
activeToothOf(a) ==
    LET hits == {k \in 1..Len(toothInfos) : <<toothInfos[k].id>> = a} IN
    IF truthy(a) /\ hits # {}
    THEN <<CHOOSE k \in hits : \A j \in hits : k <= j>>
    ELSE null

\* what InfoPanel renders: the card of activeTooth, or nothing
InfoPanel(at) ==
    IF at # null
    THEN [ title |-> toothInfos[at[1]].name, text |-> toothInfos[at[1]].blurb ]
    ELSE null

(***************************************************************************)
(* Scale of a mesh.  A scale is an exact rational, held as its numerator   *)
(* over ScaleDen; ScaleDen carries one factor 5 for each frame a run can    *)
(* have, so that every step of the interpolation is exact.                 *)
(***************************************************************************)
ScaleDen == 100 * (5 ^ MaxEvents)

ScaleRest == ScaleDen

ScaleActive == 112 * (5 ^ MaxEvents)

\* a += (targetScale - a) * 0.2
axisStep(a, targetScale) == a + ((targetScale - a) * 2) \div 10

\* variant: the scale is set to the target at once
useFrame_snap(active, hov, s) ==
    LET targetScale == IF active \/ hov THEN ScaleActive ELSE ScaleRest IN
    [ x |-> targetScale, y |-> targetScale, z |-> targetScale ]

useFrame(active, hov, s) ==
    LET targetScale == IF active \/ hov THEN ScaleActive ELSE ScaleRest IN
    [ x |-> axisStep(s.x, targetScale),
      y |-> axisStep(s.y, targetScale),
      z |-> axisStep(s.z, targetScale) ]

(***************************************************************************)
(* State.                                                                  *)
(***************************************************************************)
VARIABLES
    activeId,     \* useState<number | null> of DentalPregnancyLanding
    query,        \* useState<string> of DentalPregnancyLanding
    filtered,     \* the memoised filter result
    hovered,      \* the Tooth instances whose useState<boolean> hovered is true
    scale,        \* ref.current.scale of each Tooth
    events,       \* number of events handled so far
    lastEvent,    \* kind of the event handled last
    lastSelect    \* the last select or dismiss event, and how it met the state

vars == <<activeId, query, filtered, hovered, scale, events, lastEvent, lastSelect>>

activeTooth == activeToothOf(activeId)

Init ==
    /\ activeId = null
    /\ query = Chars("")
    /\ filtered = filteredMemo[Chars("")]
    /\ hovered = {}
    /\ scale = [p \in Placeholders |-> [x |-> ScaleRest, y |-> ScaleRest, z |-> ScaleRest]]
    /\ events = 0
    /\ lastEvent = "none"
    /\ lastSelect = [kind |-> "none", id |-> 0, met |-> "nothing"]

\* how a select of v or a dismiss (v = null) meets the selection a
Met(a, v) ==
    IF a = null THEN "nothing" ELSE IF a = v THEN "same" ELSE "other"

Handled(kind) ==
    /\ events < MaxEvents
    /\ events' = events + 1
    /\ lastEvent' = kind

\* Tooth onClick -> onSelect(id) -> setActiveId(id)
ClickTooth(p) ==
    /\ Handled("click")
    /\ activeId' = setActiveId(activeId, <<idOf(p)>>)
    /\ lastSelect' = [kind |-> "select", id |-> idOf(p),
                      met |-> Met(activeId, <<idOf(p)>>)]
    /\ UNCHANGED <<query, filtered, hovered, scale>>

\* search result button onClick -> setActiveId(t.id)
ClickResult(k) ==
    /\ k \in 1..Len(filtered)
    /\ Handled("result")
    /\ activeId' = setActiveId(activeId, <<toothInfos[filtered[k]].id>>)
    /\ lastSelect' = [kind |-> "select", id |-> toothInfos[filtered[k]].id,
                      met |-> Met(activeId, <<toothInfos[filtered[k]].id>>)]
    /\ UNCHANGED <<query, filtered, hovered, scale>>

\* InfoPanel "Tutup" button -> onClear -> setActiveId(null);
\* the button exists only while the panel is rendered
Dismiss ==
    /\ activeTooth # null
    /\ Handled("dismiss")
    /\ activeId' = setActiveId(activeId, null)
    /\ lastSelect' = [kind |-> "dismiss", id |-> 0, met |-> Met(activeId, null)]
    /\ UNCHANGED <<query, filtered, hovered, scale>>

\* variant: a new query clears the selection
SetQuery_clearsSelection(v) ==
    /\ Handled("query")
    /\ query' = v
    /\ filtered' = filteredMemo[v]
    /\ activeId' = null
    /\ UNCHANGED <<hovered, scale, lastSelect>>

\* Input onChange -> setQuery(e.target.value), then the memo is recomputed
SetQuery(v) ==
    /\ Handled("query")
    /\ query' = v
    /\ filtered' = filteredMemo[v]
    /\ UNCHANGED <<activeId, hovered, scale, lastSelect>>

\* mesh onPointerOver -> setHovered(true); the renderer reports it for a mesh
\* the pointer was not over, and at most MaxHovered pointers are over meshes
PointerOver(p) ==
    /\ p \notin hovered
    /\ Cardinality(hovered) < MaxHovered
    /\ Handled("over")
    /\ hovered' = hovered \cup {p}
    /\ UNCHANGED <<activeId, query, filtered, scale, lastSelect>>

\* mesh onPointerOut -> setHovered(false); reported for a mesh the pointer was over
PointerOut(p) ==
    /\ p \in hovered
    /\ Handled("out")
    /\ hovered' = hovered \ {p}
    /\ UNCHANGED <<activeId, query, filtered, scale, lastSelect>>

\* one rendered frame: the useFrame callback of every Tooth runs
Frame ==
    /\ Handled("frame")
    /\ scale' = [p \in Placeholders |->
                    useFrame(isActive(activeId, idOf(p)), p \in hovered, scale[p])]
    /\ UNCHANGED <<activeId, query, filtered, hovered, lastSelect>>

Next ==
    \/ \E p \in Placeholders : ClickTooth(p)
    \/ \E k \in 1..SliceEnd : ClickResult(k)
    \/ Dismiss
    \/ \E v \in TypedQueries : SetQuery(v)
    \/ \E p \in Placeholders : PointerOver(p)
    \/ \E p \in Placeholders : PointerOut(p)
    \/ Frame

Spec == Init /\ [][Next]_vars

\* the search box and its result list, with every query of AllQueries
NextFilter ==
    \/ \E v \in AllQueries : SetQuery(v)
    \/ \E k \in 1..SliceEnd : ClickResult(k)
    \/ Dismiss

SpecFilter == Init /\ [][NextFilter]_vars

(***************************************************************************)
(* Vocabulary of the properties.                                           *)
(***************************************************************************)
CatalogIds == {toothInfos[k].id : k \in 1..Len(toothInfos)}

Range(a) == {a[k] : k \in 1..Len(a)}

Increasing(a) == \A k \in 1..(Len(a) - 1) : a[k] < a[k + 1]

idsOf(a) == <<>> \o [k \in 1..Len(a) |-> toothInfos[a[k]].id]

normalizedOf(text) == toLowerCase(trim(text))

\* the catalog positions whose text contains the normalized query,
\* for three readings of "the text of a record"
JoinedMatches ==
    [v \in AllQueries |->
        {p \in 1..Len(toothInfos) :
            includes(toLowerCase(toothInfos[p].name \o <<" ">> \o toothInfos[p].blurb),
                     normalizedOf(v))}]

PlainMatches ==
    [v \in AllQueries |->
        {p \in 1..Len(toothInfos) :
            includes(toLowerCase(toothInfos[p].name \o toothInfos[p].blurb),
                     normalizedOf(v))}]

FieldMatches ==
    [v \in AllQueries |->
        {p \in 1..Len(toothInfos) :
            \/ includes(toLowerCase(toothInfos[p].name), normalizedOf(v))
            \/ includes(toLowerCase(toothInfos[p].blurb), normalizedOf(v))}]

IsBlank == [v \in AllQueries |-> normalizedOf(v) = <<>>]

\* a is the first n (or all, when fewer) members of M, in increasing order
FirstOf(a, M, n) ==
    /\ Increasing(a)
    /\ Range(a) \subseteq M
    /\ Len(a) = (IF Cardinality(M) < n THEN Cardinality(M) ELSE n)
    /\ \A p \in M \ Range(a) : \A k \in 1..Len(a) : a[k] < p

ActivePlaceholders == {p \in Placeholders : isActive(activeId, idOf(p))}

targetOf(p) ==
    IF activeId = <<idOf(p)>> \/ p \in hovered THEN ScaleActive ELSE ScaleRest

Axes == {"x", "y", "z"}

StepOf(kinds) == events' # events /\ lastEvent' \in kinds

(***************************************************************************)
(* C1.  After any sequence of events the selection is absent or is the id  *)
(* of a catalog record, an integer in 1..32.                               *)
(***************************************************************************)
ThmC1 ==
    \/ activeId = null
    \/ /\ Len(activeId) = 1
       /\ activeId[1] \in 1..32
       /\ activeId[1] \in CatalogIds

WitC1 ==
    /\ activeId = <<32>>
    /\ lastEvent = "frame"
    /\ query # <<>>

(***************************************************************************)
(* C2.  The selection depends on the last select or dismiss event alone:   *)
(* Selected(id) after select(id), NoSelection after a dismiss and before   *)
(* any such event.                                                         *)
(***************************************************************************)
ThmC2 ==
    /\ lastSelect.kind = "none" => activeId = null
    /\ lastSelect.kind = "dismiss" => activeId = null
    /\ lastSelect.kind = "select" => activeId = <<lastSelect.id>>

WitC2 ==
    /\ lastSelect.kind = "select"
    /\ lastSelect.met = "other"
    /\ activeId = <<lastSelect.id>>
    /\ lastEvent \in {"click", "result"}

(***************************************************************************)
(* C3.  The views agree with the selection: in Selected(id) the panel      *)
(* shows name and tip of the one record with that id and exactly the       *)
(* placeholder carrying id is active; otherwise the panel shows nothing    *)
(* and no placeholder is active.  Each id of 1..32 is carried by exactly   *)
(* one placeholder, 1..16 in one row and 17..32 in the mirrored row.       *)
(***************************************************************************)
LayoutC3 ==
    /\ \A id \in 1..32 : Cardinality({p \in Placeholders : idOf(p) = id}) = 1
    /\ \A p \in Placeholders :
          IF p[1] = 1 THEN idOf(p) \in 1..16 ELSE idOf(p) \in 17..32
    /\ InfoPanel(activeToothOf(<<1>>)) # InfoPanel(activeToothOf(<<32>>))

ThmC3 ==
    LET panel == InfoPanel(activeTooth)
        active == ActivePlaceholders
    IN
    /\ LayoutC3
    /\ IF activeId # null /\ activeId[1] \in CatalogIds
       THEN /\ panel # null
            /\ \A k \in 1..Len(toothInfos) :
                  toothInfos[k].id = activeId[1] =>
                     /\ panel.title = toothInfos[k].name
                     /\ panel.text = toothInfos[k].blurb
            /\ panel.title = names[activeId[1]]
            /\ panel.text = tips[((activeId[1] - 1) % 8) + 1]
            /\ Cardinality(active) = 1
            /\ \A p \in active : idOf(p) = activeId[1]
       ELSE /\ panel = null
            /\ active = {}

WitC3 ==
    /\ activeId = <<32>>
    /\ lastSelect.met = "other"
    /\ InfoPanel(activeTooth) # null
    /\ Cardinality(ActivePlaceholders) = 1

(***************************************************************************)
(* C4.  For every query the search filter returns at most 8 records.       *)
(***************************************************************************)
ThmC4 == Len(filtered) <= 8

WitC4 ==
    /\ ~IsBlank[query]
    /\ Cardinality(JoinedMatches[query]) > 8
    /\ Len(filtered) = 8

(***************************************************************************)
(* C5 as stated.  For a query whose normalized form is non-empty the       *)
(* filter returns the first up to 8 records, in catalog order, whose       *)
(* name directly followed by its tip (lowercased) contains the normalized  *)
(* query.                                                                  *)
(***************************************************************************)
CexC5 == ~IsBlank[query] => FirstOf(filtered, PlainMatches[query], 8)

(***************************************************************************)
(* C5 as amended.  For a query whose normalized form is non-empty the      *)
(* filter returns the first up to 8 records, in catalog order, whose name, *)
(* one space and tip (lowercased) contain the normalized query, and no     *)
(* other record.                                                           *)
(***************************************************************************)
ThmC5 == ~IsBlank[query] => FirstOf(filtered, JoinedMatches[query], 8)

WitC5 ==
    /\ ~IsBlank[query]
    /\ lastEvent = "query"
    /\ filtered # <<>>
    /\ JoinedMatches[query] # PlainMatches[query]

(***************************************************************************)
(* C6 as stated.  For a query whose normalized form is non-empty every     *)
(* record returned contains the normalized query within its name or within *)
(* its tip, and when at most 8 records do so the result is exactly those   *)
(* records in catalog order; "x-ray" returns the records 6, 14, 22, 30 and *)
(* "gingivitis" the records whose name or tip contains it.                 *)
(***************************************************************************)
CexC6 ==
    ~IsBlank[query] =>
       /\ Range(filtered) \subseteq FieldMatches[query]
       /\ Cardinality(FieldMatches[query]) <= 8 =>
             Increasing(filtered) /\ Range(filtered) = FieldMatches[query]
       /\ normalizedOf(query) = Chars("x-ray") => idsOf(filtered) = <<6, 14, 22, 30>>
       /\ normalizedOf(query) = Chars("gingivitis") =>
             Range(filtered) = FieldMatches[query]

(***************************************************************************)
(* C6 as amended.  For a query whose normalized form is non-empty every    *)
(* record returned contains the normalized query within its name, one      *)
(* space and tip taken together (so also within its name or within its tip *)
(* alone), and when at most 8 records do so the result is exactly those    *)
(* records in catalog order; "x-ray" returns the records 6, 14, 22, 30 and *)
(* "gingivitis" the records whose name or tip contains it.                 *)
(***************************************************************************)
ThmC6 ==
    ~IsBlank[query] =>
       /\ Range(filtered) \subseteq JoinedMatches[query]
       /\ FieldMatches[query] \subseteq JoinedMatches[query]
       /\ Cardinality(JoinedMatches[query]) <= 8 =>
             Increasing(filtered) /\ Range(filtered) = JoinedMatches[query]
       /\ normalizedOf(query) = Chars("x-ray") => idsOf(filtered) = <<6, 14, 22, 30>>
       /\ normalizedOf(query) = Chars("gingivitis") =>
             Range(filtered) = FieldMatches[query]

WitC6 ==
    /\ ~IsBlank[query]
    /\ query # normalizedOf(query)
    /\ idsOf(filtered) = <<6, 14, 22, 30>>
    /\ activeId # null

(***************************************************************************)
(* C7.  For a query that is empty or only whitespace the filter returns    *)
(* the first 8 catalog records, ids 1..8, in catalog order, whatever the   *)
(* selection.                                                              *)
(***************************************************************************)
ThmC7 ==
    (\A k \in 1..Len(query) : query[k] \in WhiteSpace) =>
        /\ filtered = <<1, 2, 3, 4, 5, 6, 7, 8>>
        /\ idsOf(filtered) = <<1, 2, 3, 4, 5, 6, 7, 8>>

WitC7 ==
    /\ query # <<>>
    /\ \A k \in 1..Len(query) : query[k] \in WhiteSpace
    /\ activeId # null
    /\ lastEvent = "query"

(***************************************************************************)
(* C8.  The catalog holds exactly 32 records; the record at index i has    *)
(* id i+1; every name is non-empty; every tip is one of the 8 tips,        *)
(* namely tips[(id-1) mod 8]; the result list and the panel show records   *)
(* of this catalog.                                                        *)
(***************************************************************************)
CatalogC8 ==
    /\ Len(toothInfos) = 32
    /\ Len(tips) = 8
    /\ \A i \in 0..31 :
          /\ toothInfos[i + 1].id = i + 1
          /\ toothInfos[i + 1].name # <<>>
          /\ toothInfos[i + 1].blurb \in Range(tips)
          /\ toothInfos[i + 1].blurb = tips[((toothInfos[i + 1].id - 1) % 8) + 1]
    /\ Cardinality(CatalogIds) = 32
    /\ CatalogIds = 1..32

ThmC8 ==
    /\ CatalogC8
    /\ \A p \in Range(filtered) \cup Range(activeTooth) :
          p \in 1..32 /\ toothInfos[p].id = p

WitC8 ==
    /\ activeTooth = <<32>>
    /\ InfoPanel(activeTooth).text = tips[8]
    /\ lastEvent = "click"

(***************************************************************************)
(* C9.  A query keystroke, a pointer-over, a pointer-out and a frame each  *)
(* leave the selection (and so the panel) unchanged; a select, a dismiss,  *)
(* a hover event and a frame each leave the query unchanged.               *)
(***************************************************************************)
ThmC9 ==
    [][ /\ StepOf({"query", "over", "out", "frame"}) =>
              /\ activeId' = activeId
              /\ InfoPanel(activeToothOf(activeId')) = InfoPanel(activeTooth)
        /\ StepOf({"click", "result", "dismiss", "over", "out", "frame"}) =>
              /\ query' = query
              /\ filtered' = filtered ]_vars

WitC9 ==
    /\ lastEvent = "query"
    /\ InfoPanel(activeTooth) # null
    /\ activeTooth[1] \notin Range(filtered)

=============================================================================
